---- MODULE Spec2Model ----
(***************************************************************************)
(* A model of mcp-database-manager: the DatabaseManager of db_manager.py   *)
(* (engine cache, schema report, read path, write path) and the call_tool  *)
(* handler of server.py.  One tool invocation is one atomic step: the      *)
(* handler is a coroutine without an await in its body.                    *)
(*                                                                         *)
(* Python strings that the code inspects (the query text) are sequences of *)
(* one-character strings; strings the code only passes around (connection  *)
(* names, message fragments) are TLA+ strings.  An exception is a result   *)
(* record whose exc field names the exception class.                       *)
(***************************************************************************)
EXTENDS Integers, Sequences, FiniteSets, TLC

\* the field names of the records of this model; every record below lists
\* its fields in this order
FieldNames ==
    DOMAIN [t |-> 0, v |-> 0, readonly |-> 0, replica |-> 0, primary |-> 0,
            createOk |-> 0, connectOk |-> 0, execOk |-> 0, rows |-> 0,
            pending |-> 0, tool |-> 0, arguments |-> 0, status |-> 0,
            exc |-> 0, msg |-> 0, text |-> 0, value |-> 0, engines |-> 0,
            created |-> 0, engine |-> 0, db |-> 0, effects |-> 0,
            executed |-> 0, rowcount |-> 0, conn |-> 0, path |-> 0,
            connection_name |-> 0, query |-> 0, table_names |-> 0,
            name |-> 0, columns |-> 0, type |-> 0, nullable |-> 0,
            default |-> 0, rows_affected |-> 0]

VARIABLES config, engines, nextHandle, db, creations, otherUse, last

vars == <<config, engines, nextHandle, db, creations, otherUse, last>>

----------------------------------------------------------------------------
(* Bounds *)

\* rowcount / number of result rows the driver may report: 0..MaxRows
MaxRows == 1
\* the committed content of a database is a value in 0..MaxDbValue
MaxDbValue == 1
\* engine handles are numbered 1..; steps are disabled beyond MaxHandle
MaxHandle == 4

DbValues == 0..MaxDbValue
RowCounts == 0..MaxRows

----------------------------------------------------------------------------
(* Python values *)

PyNone == [t |-> "none"]
PyName(s) == [t |-> "name", v |-> s]
PyText(s) == [t |-> "text", v |-> s]

\* truthiness that reads only None as missing
truthy_none_only(x) == x.t # "none"

\* Python truthiness of an argument value: None and the empty string are falsy
truthy(x) ==
    CASE x.t = "none" -> FALSE
      [] x.t = "name" -> x.v # ""
      [] x.t = "text" -> x.v # <<>>

Range(s) == {s[i] : i \in 1..Len(s)}

UpperChars == <<"A","B","C","D","E","F","G","H","I","J","K","L","M",
                "N","O","P","Q","R","S","T","U","V","W","X","Y","Z">>
LowerChars == <<"a","b","c","d","e","f","g","h","i","j","k","l","m",
                "n","o","p","q","r","s","t","u","v","w","x","y","z">>
Whitespace == {" ", "\t", "\n", "\r"}

lower_char(c) ==
    IF \E i \in 1..26 : UpperChars[i] = c
    THEN LowerChars[CHOOSE i \in 1..26 : UpperChars[i] = c]
    ELSE c

upper_char(c) ==
    IF \E i \in 1..26 : LowerChars[i] = c
    THEN UpperChars[CHOOSE i \in 1..26 : LowerChars[i] = c]
    ELSE c

\* str.lower()
lower(s) == [i \in 1..Len(s) |-> lower_char(s[i])]

\* str.upper(), used to build inputs only
upper(s) == [i \in 1..Len(s) |-> upper_char(s[i])]

RECURSIVE lstrip(_)
lstrip(s) ==
    IF s # <<>> /\ Head(s) \in Whitespace THEN lstrip(Tail(s)) ELSE s

RECURSIVE rstrip(_)
rstrip(s) ==
    IF s # <<>> /\ s[Len(s)] \in Whitespace
    THEN rstrip(SubSeq(s, 1, Len(s) - 1))
    ELSE s

\* str.strip()
strip(s) == rstrip(lstrip(s))

\* str.startswith(prefix)
startswith(s, prefix) ==
    Len(s) >= Len(prefix) /\ SubSeq(s, 1, Len(prefix)) = prefix

forbidden_keywords ==
    << <<"i","n","s","e","r","t">>,
       <<"u","p","d","a","t","e">>,
       <<"d","e","l","e","t","e">>,
       <<"d","r","o","p">>,
       <<"a","l","t","e","r">>,
       <<"c","r","e","a","t","e">>,
       <<"t","r","u","n","c","a","t","e">>,
       <<"g","r","a","n","t">>,
       <<"r","e","v","o","k","e">> >>

\* the denylist test of execute_read, without lower-casing
IsForbiddenNoLower(query) ==
    LET query_lower == strip(query)
    IN  \E i \in 1..Len(forbidden_keywords) :
            startswith(query_lower, forbidden_keywords[i])

\* the denylist test of execute_read, without trimming
IsForbiddenNoStrip(query) ==
    LET query_lower == lower(query)
    IN  \E i \in 1..Len(forbidden_keywords) :
            startswith(query_lower, forbidden_keywords[i])

\* the denylist test of execute_read
IsForbidden(query) ==
    LET query_lower == lower(strip(query))
    IN  \E i \in 1..Len(forbidden_keywords) :
            startswith(query_lower, forbidden_keywords[i])

----------------------------------------------------------------------------
(* Configuration *)

NoConfig == [t |-> "none"]
ConnectionConfig(ro) == [t |-> "config", readonly |-> ro]

\* the configuration loaded at startup: a read-only and a writable connection
Config ==
    [replica |-> ConnectionConfig(TRUE), primary |-> ConnectionConfig(FALSE)]

\* ConfigManager.get_connection
get_connection(cfg, connection_name) ==
    IF connection_name \in DOMAIN cfg THEN cfg[connection_name] ELSE NoConfig

\* ConfigManager.list_connections
list_connections(cfg) == {n \in DOMAIN cfg : cfg[n].t = "config"}

----------------------------------------------------------------------------
(* Inputs *)

\* the connection names a caller passes: the configured ones and one that
\* is not in the configuration
DbNames == DOMAIN Config \cup {"missing"}

\* what arguments.get("connection_name") can yield
NameArgs == {PyNone, PyName("")} \cup {PyName(n) : n \in DbNames}

select == <<"s","e","l","e","c","t">>

\* the query texts of the server specification
QueryTexts ==
    { <<>>,
      <<" ", "\n">>,
      select,
      <<"d","r","o","p">>,
      <<" ","\n","D","R","O","P","\t">> }

\* what arguments.get("query") can yield
QueryArgs == {PyNone} \cup {PyText(q) : q \in QueryTexts}

\* the query texts of the gate specification: every keyword, in lower and
\* upper case, with and without leading white space, and texts that only
\* look like a keyword
Pads == {<<>>, <<" ", "\n">>}

OtherHeads ==
    { select,
      <<"i","n","s","e","r">>,
      <<"-","-","d","r","o","p">>,
      <<"s","e","l","e","c","t"," ","d","r","o","p">> }

MixedHeads ==
    { <<"I","n","S","e","R","t">>,
      <<"U","p","d","a","t","e","x","\t">> }

Heads ==
    Range(forbidden_keywords)
    \cup {upper(kw) : kw \in Range(forbidden_keywords)}
    \cup MixedHeads \cup OtherHeads

GateQueryTexts == {p \o h : p \in Pads, h \in Heads}

GateQueryArgs == {PyText(q) : q \in GateQueryTexts}

\* what arguments.get("table_names") can yield
TableArgs == {PyNone, [t |-> "list", v |-> <<"users">>]}

\* what the driver does on one call: create_engine raises or not, the
\* connection opens or not, the statement raises or not, the content the
\* statement leaves in its transaction (pending) and the row count it
\* reports.  A step that is not reached has no outcome, so the fields after
\* a failure are fixed.
Outcome(createOk, connectOk, execOk, rows, pending) ==
    [createOk |-> createOk, connectOk |-> connectOk, execOk |-> execOk,
     rows |-> rows, pending |-> pending]

NoOutcome == Outcome(TRUE, TRUE, TRUE, 0, 0)

Outcomes ==
    {Outcome(FALSE, FALSE, FALSE, 0, 0), Outcome(TRUE, FALSE, FALSE, 0, 0)}
    \cup {Outcome(TRUE, TRUE, FALSE, 0, p) : p \in DbValues}
    \cup {Outcome(TRUE, TRUE, TRUE, n, p) : n \in RowCounts, p \in DbValues}

----------------------------------------------------------------------------
(* DatabaseManager *)

Ok == "none"

\* a function result: exc = Ok and a value, or the exception raised
Raise(exc, msg, eng, created, engine, dbv, effects, executed) ==
    [exc |-> exc, msg |-> msg, value |-> <<>>, engines |-> eng,
     created |-> created, engine |-> engine, db |-> dbv, effects |-> effects,
     executed |-> executed, rowcount |-> 0]

Return(value, eng, created, engine, dbv, effects, executed, rowcount) ==
    [exc |-> Ok, msg |-> <<>>, value |-> value, engines |-> eng,
     created |-> created, engine |-> engine, db |-> dbv, effects |-> effects,
     executed |-> executed, rowcount |-> rowcount]

\* `connection_name in self._engines` that never hits
CacheHitNever(eng, connection_name) == FALSE

\* `connection_name in self._engines`
CacheHit(eng, connection_name) == connection_name \in DOMAIN eng

\* `if not conn_config`
ConfigFound(conn_config) == conn_config.t # "none"

\* the try block of _get_engine storing the handle although creation raised
create_and_cache_always(eng, connection_name, handle, createOk) ==
    (connection_name :> handle) @@ eng

\* the try block of _get_engine: the handle is stored only when
\* create_engine returned
create_and_cache(eng, connection_name, handle, createOk) ==
    IF createOk THEN (connection_name :> handle) @@ eng ELSE eng

_get_engine(eng, cfg, nh, connection_name, o) ==
    IF CacheHit(eng, connection_name)
    THEN Return(<<>>, eng, FALSE, eng[connection_name], <<>>,
                <<"cache_read">>, <<>>, 0)
    ELSE LET conn_config == get_connection(cfg, connection_name)
         IN  IF ~ConfigFound(conn_config)
             THEN Raise("ValueError",
                        <<"Connection '", connection_name,
                          "' not found in configuration.">>,
                        eng, FALSE, 0, <<>>,
                        <<"cache_read", "config_lookup">>, <<>>)
             ELSE IF o.createOk
             THEN Return(<<>>,
                         create_and_cache(eng, connection_name, nh, TRUE),
                         TRUE, nh, <<>>,
                         <<"cache_read", "config_lookup", "create_engine",
                           "cache_write">>, <<>>, 0)
             ELSE Raise("RuntimeError",
                        <<"Failed to create engine for '", connection_name,
                          "': ", "<driver message>">>,
                        create_and_cache(eng, connection_name, nh, FALSE),
                        FALSE, 0, <<>>,
                        <<"cache_read", "config_lookup", "create_engine">>,
                        <<>>)

\* Engine.connect() used as a context manager: the code never commits, and
\* closing the connection discards what the statement left pending
connect_exit(before, pending) == before

\* Engine.begin() that commits although the block raised
begin_exit_commit_always(before, pending, raised) == pending

\* Engine.begin() used as a context manager: commit when the block
\* completes, rollback when it raises
begin_exit(before, pending, raised) ==
    IF raised THEN before ELSE pending

Statement(connection_name, path, query) ==
    [conn |-> connection_name, path |-> path, query |-> query]

execute_read(eng, cfg, nh, dbv, connection_name, query, o) ==
    IF IsForbidden(query)
    THEN Raise("ValueError",
               <<"Write operations are not allowed in read_sql. Use write_sql instead.">>,
               eng, FALSE, 0, dbv, <<>>, <<>>)
    ELSE LET g == _get_engine(eng, cfg, nh, connection_name, o)
         IN  IF g.exc # Ok
             THEN Raise(g.exc, g.msg, g.engines, g.created, 0, dbv, g.effects, <<>>)
             ELSE IF ~o.connectOk
             THEN Raise("OperationalError", <<"<driver message>">>,
                        g.engines, g.created, g.engine, dbv,
                        g.effects \o <<"connect">>, <<>>)
             ELSE IF ~o.execOk
             THEN Raise("DBAPIError", <<"<driver message>">>,
                        g.engines, g.created, g.engine,
                        [dbv EXCEPT ![connection_name] =
                            connect_exit(@, o.pending)],
                        g.effects \o <<"connect", "execute", "close">>,
                        <<Statement(connection_name, "read", query)>>)
             ELSE Return([i \in 1..o.rows |-> "row"],
                         g.engines, g.created, g.engine,
                         [dbv EXCEPT ![connection_name] =
                            connect_exit(@, o.pending)],
                         g.effects \o <<"connect", "execute", "close">>,
                         <<Statement(connection_name, "read", query)>>,
                         o.rows)

\* `if conn_config.readonly` that lets every connection through
IsReadonlyNever(conn_config) == FALSE

\* `if conn_config.readonly`
IsReadonly(conn_config) == conn_config.readonly

execute_write(eng, cfg, nh, dbv, connection_name, query, o) ==
    LET conn_config == get_connection(cfg, connection_name)
    IN  IF ~ConfigFound(conn_config)
        THEN Raise("ValueError",
                   <<"Connection '", connection_name, "' not found.">>,
                   eng, FALSE, 0, dbv, <<"config_lookup">>, <<>>)
        ELSE IF IsReadonly(conn_config)
        THEN Raise("PermissionError",
                   <<"Connection '", connection_name,
                     "' is configured as READ-ONLY.">>,
                   eng, FALSE, 0, dbv, <<"config_lookup">>, <<>>)
        ELSE LET g == _get_engine(eng, cfg, nh, connection_name, o)
                 e == <<"config_lookup">> \o g.effects
             IN  IF g.exc # Ok
                 THEN Raise(g.exc, g.msg, g.engines, g.created, 0, dbv, e, <<>>)
                 ELSE IF ~o.connectOk
                 THEN Raise("OperationalError", <<"<driver message>">>,
                            g.engines, g.created, g.engine, dbv,
                            e \o <<"connect">>, <<>>)
                 ELSE IF ~o.execOk
                 THEN Raise("DBAPIError", <<"<driver message>">>,
                            g.engines, g.created, g.engine,
                            [dbv EXCEPT ![connection_name] =
                                begin_exit(@, o.pending, TRUE)],
                            e \o <<"connect", "begin", "execute", "rollback">>,
                            <<Statement(connection_name, "write", query)>>)
                 ELSE Return([status |-> "success", rows_affected |-> o.rows],
                             g.engines, g.created, g.engine,
                             [dbv EXCEPT ![connection_name] =
                                begin_exit(@, o.pending, FALSE)],
                             e \o <<"connect", "begin", "execute", "commit">>,
                             <<Statement(connection_name, "write", query)>>,
                             o.rows)

\* what the inspector of a configured database shows
VisibleTables ==
    << [name |-> "users",
        columns |-> << [name |-> "id", type |-> "INTEGER",
                        nullable |-> FALSE, default |-> "<None>"],
                       [name |-> "name", type |-> "VARCHAR",
                        nullable |-> TRUE, default |-> "<absent>"] >>],
       [name |-> "orders",
        columns |-> << [name |-> "id", type |-> "INTEGER",
                        nullable |-> FALSE, default |-> "0"],
                       [name |-> "user_id", type |-> "INTEGER",
                        nullable |-> TRUE, default |-> "<None>"] >>] >>

\* str(bool)
str_bool(b) == IF b THEN "True" ELSE "False"

\* col.get('default', '') with None rendered as NULL
default_val(col) ==
    LET d == IF col.default = "<absent>" THEN "" ELSE col.default
    IN  IF d = "<None>" THEN "NULL" ELSE d

table_md(table) ==
    << <<"## Table: ", table.name>> >>
    \o (IF table.columns # <<>>
        THEN << <<"| Column | Type | Nullable | Default |">>,
                <<"|---|---|---|---|">> >>
             \o [i \in 1..Len(table.columns) |->
                    LET col == table.columns[i]
                    IN  <<"| ", col.name, col.type, str_bool(col.nullable),
                          default_val(col)>>]
        ELSE <<>>)
    \o << <<"">> >>

RECURSIVE tables_md(_)
tables_md(tables) ==
    IF tables = <<>> THEN <<>>
    ELSE table_md(Head(tables)) \o tables_md(Tail(tables))

\* DatabaseManager.get_schema(self, connection_name)
get_schema(eng, cfg, nh, dbv, connection_name, o) ==
    LET g == _get_engine(eng, cfg, nh, connection_name, o)
    IN  IF g.exc # Ok
        THEN Raise(g.exc, g.msg, g.engines, g.created, 0, dbv, g.effects, <<>>)
        ELSE IF ~o.connectOk
        THEN Raise("OperationalError", <<"<driver message>">>,
                   g.engines, g.created, g.engine, dbv,
                   g.effects \o <<"connect">>, <<>>)
        ELSE Return(<< <<"# Schema for ", connection_name>> >>
                        \o tables_md(VisibleTables),
                    g.engines, g.created, g.engine, dbv,
                    g.effects \o <<"connect", "inspect">>, <<>>, 0)

\* the parameters of DatabaseManager.get_schema after self
get_schema_params == <<"connection_name">>

\* binding positional arguments to parameters: too many is a TypeError
binds(params, args) == Len(args) <= Len(params)

----------------------------------------------------------------------------
(* call_tool *)

RECURSIVE flatten(_)
flatten(lines) ==
    IF lines = <<>> THEN <<>> ELSE Head(lines) \o flatten(Tail(lines))

\* json.dumps of the read path's row list
dumps_rows(rows) == <<"[">> \o rows \o <<"]">>

\* json.dumps of the write path's result
dumps_result(result) ==
    <<"{", "\"status\": ", result.status, "\"rows_affected\": ",
      ToString(result.rows_affected), "}">>

\* what the handler hands back to the transport
Response(status, exc, text, r) ==
    [status |-> status, exc |-> exc, text |-> text, value |-> r.value,
     engines |-> r.engines, created |-> r.created, engine |-> r.engine,
     db |-> r.db, effects |-> r.effects, executed |-> r.executed,
     rowcount |-> r.rowcount]

\* a raise outside the try blocks: the call fails at the transport
Propagate(exc, msg, eng, dbv) ==
    Response("raised", exc, msg,
             Raise(exc, msg, eng, FALSE, 0, dbv, <<>>, <<>>))

\* a handler whose try block lets the exception through
tool_boundary_reraise(r, rendered) ==
    IF r.exc = Ok
    THEN Response("text", Ok, rendered, r)
    ELSE Response("raised", r.exc, r.msg, r)

\* try: ... return [TextContent(text=<rendered result>)]
\* except Exception as e: return [TextContent(text=f"Error: {str(e)}")]
tool_boundary(r, rendered) ==
    IF r.exc = Ok
    THEN Response("text", Ok, rendered, r)
    ELSE Response("text", r.exc, <<"Error: ">> \o r.msg, r)

\* arguments.get(key): an absent key reads as None
get(arguments, key) ==
    IF key \in DOMAIN arguments THEN arguments[key] ELSE PyNone

call_tool(eng, cfg, nh, dbv, name, arguments, o) ==
    CASE name = "list_connections" ->
            Response("text", Ok,
                     <<"[">> \o [i \in 1..Cardinality(list_connections(cfg))
                                    |-> "{connection}"] \o <<"]">>,
                     Return(list_connections(cfg), eng, FALSE, 0, dbv,
                            <<"config_list">>, <<>>, 0))
      [] name = "get_schema" ->
            LET connection_name == get(arguments, "connection_name")
                table_names == get(arguments, "table_names")
            IN  IF ~truthy(connection_name)
                THEN Propagate("ValueError", <<"connection_name is required">>,
                               eng, dbv)
                ELSE IF ~binds(get_schema_params,
                               <<connection_name, table_names>>)
                THEN tool_boundary(
                        Raise("TypeError",
                              <<"get_schema() takes 2 positional arguments but 3 were given">>,
                              eng, FALSE, 0, dbv, <<>>, <<>>), <<>>)
                ELSE LET r == get_schema(eng, cfg, nh, dbv,
                                         connection_name.v, o)
                     IN  tool_boundary(r, flatten(r.value))
      [] name = "read_sql" ->
            LET connection_name == get(arguments, "connection_name")
                query == get(arguments, "query")
            IN  IF ~truthy(connection_name) \/ ~truthy(query)
                THEN Propagate("ValueError",
                               <<"connection_name and query are required">>,
                               eng, dbv)
                ELSE LET r == execute_read(eng, cfg, nh, dbv,
                                           connection_name.v, query.v, o)
                     IN  tool_boundary(r, dumps_rows(r.value))
      [] name = "write_sql" ->
            LET connection_name == get(arguments, "connection_name")
                query == get(arguments, "query")
            IN  IF ~truthy(connection_name) \/ ~truthy(query)
                THEN Propagate("ValueError",
                               <<"connection_name and query are required">>,
                               eng, dbv)
                ELSE LET r == execute_write(eng, cfg, nh, dbv,
                                            connection_name.v, query.v, o)
                     IN  tool_boundary(r, IF r.exc = Ok
                                          THEN dumps_result(r.value)
                                          ELSE <<>>)
      [] OTHER ->
            Propagate("ValueError", <<"Unknown tool: ", name>>, eng, dbv)

----------------------------------------------------------------------------
(* The server *)

Arguments(connection_name, query, table_names) ==
    [connection_name |-> connection_name, query |-> query,
     table_names |-> table_names]

NoCall ==
    [tool |-> "", arguments |-> Arguments(PyNone, PyNone, PyNone),
     status |-> "", exc |-> Ok, text |-> <<>>, value |-> <<>>,
     created |-> FALSE, engine |-> 0, effects |-> <<>>, executed |-> <<>>,
     rowcount |-> 0]

\* main(): the managers are constructed, the cache is empty
Init ==
    /\ config = Config
    /\ engines = <<>>
    /\ nextHandle = 1
    /\ db = [n \in DOMAIN Config |-> 0]
    /\ creations = [n \in DbNames |-> 0]
    /\ otherUse = {}
    /\ last = NoCall

\* one invocation of call_tool(name, arguments) with the driver behaving as o
Invoke(name, arguments, o) ==
    LET r == call_tool(engines, config, nextHandle, db, name, arguments, o)
        cn == get(arguments, "connection_name")
    IN  /\ nextHandle <= MaxHandle
        /\ engines' = r.engines
        /\ db' = r.db
        /\ nextHandle' = IF r.created THEN nextHandle + 1 ELSE nextHandle
        /\ creations' = IF r.created
                        THEN [creations EXCEPT ![cn.v] = @ + 1]
                        ELSE creations
        /\ otherUse' = IF /\ name \in {"get_schema", "read_sql"}
                          /\ cn.t = "name"
                          /\ cn.v \in DOMAIN config
                       THEN otherUse \cup {cn.v}
                       ELSE otherUse
        /\ last' = [tool |-> name, arguments |-> arguments,
                    status |-> r.status, exc |-> r.exc, text |-> r.text,
                    value |-> r.value, created |-> r.created,
                    engine |-> r.engine, effects |-> r.effects,
                    executed |-> r.executed, rowcount |-> r.rowcount]
        /\ UNCHANGED config

DriverEffects == {"create_engine", "connect", "inspect", "begin", "execute",
                  "commit", "rollback", "close"}

\* the driver has a say only in a call that gets as far as the driver
DriverOutcomes(name, arguments) ==
    LET r == call_tool(engines, config, nextHandle, db, name, arguments,
                       NoOutcome)
    IN  IF Range(r.effects) \cap DriverEffects # {}
        THEN Outcomes ELSE {NoOutcome}

Call(name, arguments) ==
    \E o \in DriverOutcomes(name, arguments) : Invoke(name, arguments, o)

ListConnections ==
    Call("list_connections", Arguments(PyNone, PyNone, PyNone))

GetSchema ==
    \E cn \in NameArgs, tn \in TableArgs :
        Call("get_schema", Arguments(cn, PyNone, tn))

ReadSql ==
    \E cn \in NameArgs, q \in QueryArgs :
        Call("read_sql", Arguments(cn, q, PyNone))

WriteSql ==
    \E cn \in NameArgs, q \in QueryArgs :
        Call("write_sql", Arguments(cn, q, PyNone))

UnknownTool ==
    Call("drop_database", Arguments(PyNone, PyNone, PyNone))

Next ==
    \/ ListConnections
    \/ GetSchema
    \/ ReadSql
    \/ WriteSql
    \/ UnknownTool

Spec == Init /\ [][Next]_vars

\* the query gate on every keyword spelling: read_sql with a driver that
\* does not fail
GateReadSql ==
    \E n \in DbNames, q \in GateQueryArgs :
        Invoke("read_sql", Arguments(PyName(n), q, PyNone), NoOutcome)

GateNext == GateReadSql

GateSpec == Init /\ [][GateNext]_vars

TypeOK ==
    /\ config = Config
    /\ DOMAIN engines \subseteq DbNames
    /\ \A n \in DOMAIN engines : engines[n] \in 1..MaxHandle
    /\ nextHandle \in 1..(MaxHandle + 1)
    /\ db \in [DOMAIN Config -> DbValues]
    /\ DOMAIN last \subseteq FieldNames
    /\ last.status \in {"", "text", "raised"}

----------------------------------------------------------------------------
(* Vocabulary of the properties *)

\* the text the agent receives reports a failure
IsError(text) == text # <<>> /\ text[1] = "Error: "

\* an argument is absent or empty
Missing(x) ==
    \/ x.t = "none"
    \/ x.t = "name" /\ x.v = ""
    \/ x.t = "text" /\ x.v = <<>>

QueryTools == {"read_sql", "write_sql"}
NamedTools == {"get_schema"} \cup QueryTools

\* call l carries every argument its tool requires
ArgsPresent(l) ==
    /\ l.tool \in NamedTools
    /\ ~Missing(l.arguments.connection_name)
    /\ l.tool \in QueryTools => ~Missing(l.arguments.query)

\* call l lacks an argument its tool requires
ArgsMissing(l) ==
    /\ l.tool \in NamedTools
    /\ \/ Missing(l.arguments.connection_name)
       \/ l.tool \in QueryTools /\ Missing(l.arguments.query)

Configured(n) == n \in DOMAIN Config
ReadOnly(n) == Configured(n) /\ Config[n].readonly
Writable(n) == Configured(n) /\ ~Config[n].readonly

Name(l) == l.arguments.connection_name.v
Query(l) == l.arguments.query.v

\* the trimmed, lower-cased text starts with a mutating keyword
StartsWithMutatingKeyword(q) ==
    \E kw \in Range(forbidden_keywords) : startswith(lower(strip(q)), kw)

\* call l got as far as the driver
DriverCalled(l) == Range(l.effects) \cap DriverEffects # {}

NotFoundStyle(l) ==
    /\ l.status = "text"
    /\ l.text \in { <<"Error: ", "Connection '", Name(l),
                      "' not found in configuration.">>,
                    <<"Error: ", "Connection '", Name(l), "' not found.">> }

----------------------------------------------------------------------------
(* Properties *)

\* C1: write_sql on a connection configured read-only answers with the
\* permission error whatever the query text and whatever calls came before,
\* and the driver is not called: no engine is created, no connection opened,
\* no statement executed.
C1_ReadonlyWriteDenied ==
    (last.tool = "write_sql" /\ ArgsPresent(last) /\ ReadOnly(Name(last)))
    => /\ last.status = "text"
       /\ last.exc = "PermissionError"
       /\ last.text = <<"Error: ", "Connection '", Name(last),
                        "' is configured as READ-ONLY.">>
       /\ last.executed = <<>>
       /\ ~DriverCalled(last)

\* a read-only connection that already has an engine refuses a write
C1_Witness ==
    /\ last.tool = "write_sql" /\ ArgsPresent(last) /\ ReadOnly(Name(last))
    /\ last.exc = "PermissionError"
    /\ Name(last) \in DOMAIN engines
    /\ StartsWithMutatingKeyword(Query(last))

\* C2: read_sql rejects every query whose trimmed, lower-cased text starts
\* with a denylisted keyword with the validation error, for every connection
\* name, before anything else happens: no lookup, no engine, no statement.
C2_DenylistRejectsBeforeExecution ==
    (last.tool = "read_sql" /\ ArgsPresent(last)
        /\ StartsWithMutatingKeyword(Query(last)))
    => /\ last.status = "text"
       /\ last.exc = "ValueError"
       /\ last.text = <<"Error: ",
                        "Write operations are not allowed in read_sql. Use write_sql instead.">>
       /\ last.effects = <<>>
       /\ last.executed = <<>>

\* an upper-case keyword behind white space is rejected on a name that is
\* not configured
C2_Witness ==
    /\ last.tool = "read_sql"
    /\ Query(last) = <<" ", "\n", "R","E","V","O","K","E">>
    /\ ~Configured(Name(last))
    /\ last.exc = "ValueError"
    /\ last.effects = <<>>

\* C3: every statement the driver executed on a read-only connection came
\* through the read path and its trimmed, lower-cased text does not start
\* with a denylisted keyword.
C3_ReadOnlyExecutesOnlyReads ==
    \A i \in 1..Len(last.executed) :
        ReadOnly(last.executed[i].conn)
        => /\ last.executed[i].path = "read"
           /\ ~StartsWithMutatingKeyword(last.executed[i].query)

\* the driver executed a statement on the read-only connection
C3_Witness ==
    /\ last.executed # <<>>
    /\ ReadOnly(last.executed[1].conn)
    /\ last.executed[1].query = select
    /\ "execute" \in Range(last.effects)

\* C4: a call of get_schema, read_sql or write_sql that names a connection
\* absent from the configuration answers with a not-found error and does not
\* call the driver.
C4_UnconfiguredIsNotFound ==
    (ArgsPresent(last) /\ ~Configured(Name(last)))
    => /\ NotFoundStyle(last)
       /\ ~DriverCalled(last)
       /\ last.executed = <<>>

\* C5: a call that lacks a required argument fails at the transport with the
\* validation error before anything is looked up: the configuration and the
\* cache are not read, the cache and the databases stay as they were, the
\* driver is not called.
C5_MissingArgumentFailsFirst ==
    [][ArgsMissing(last')
        => /\ last'.status = "raised"
           /\ last'.exc = "ValueError"
           /\ last'.effects = <<>>
           /\ last'.executed = <<>>
           /\ engines' = engines
           /\ db' = db]_vars

\* an empty connection name with a good query fails although an engine is
\* cached
C5_Witness ==
    /\ last.tool = "read_sql"
    /\ last.arguments.connection_name = PyName("")
    /\ ~Missing(last.arguments.query)
    /\ last.status = "raised"
    /\ engines # <<>>

\* C6: with the required arguments present, get_schema, read_sql and
\* write_sql always return one text; the text starts with "Error: " exactly
\* when the body raised, and then it is "Error: " followed by the message.
C6_ErrorsBecomeText ==
    ArgsPresent(last)
    => /\ last.status = "text"
       /\ IsError(last.text) <=> last.exc # Ok
       /\ last.exc = Ok => last.text[1] \in {"[", "{", "# Schema for "}

\* a statement that raised in the driver is reported as text
C6_Witness ==
    /\ ArgsPresent(last)
    /\ last.tool = "write_sql"
    /\ last.exc = "DBAPIError"
    /\ last.status = "text"
    /\ IsError(last.text)

\* C7: write_sql on a writable connection is all or nothing.  When the
\* statement executes, the transaction is committed and the answer is the
\* success status with the row count the driver reported; when it raises,
\* the transaction is rolled back, the database is as before the call and
\* the answer is an error.
C7_WriteIsAllOrNothing ==
    [][(last'.tool = "write_sql" /\ ArgsPresent(last') /\ Writable(Name(last')))
       => /\ last'.exc = Ok
             => /\ last'.value = [status |-> "success",
                                  rows_affected |-> last'.rowcount]
                /\ last'.text = dumps_result(last'.value)
                /\ Len(last'.executed) = 1
                /\ "commit" \in Range(last'.effects)
                /\ "rollback" \notin Range(last'.effects)
          /\ last'.exc # Ok
             => /\ db' = db
                /\ IsError(last'.text)
                /\ "commit" \notin Range(last'.effects)
                /\ "execute" \in Range(last'.effects)
                    => "rollback" \in Range(last'.effects)]_vars

\* a statement raised after an earlier write had been committed
C7_Witness ==
    /\ last.tool = "write_sql"
    /\ ArgsPresent(last)
    /\ Writable(Name(last))
    /\ last.exc = "DBAPIError"
    /\ "rollback" \in Range(last.effects)
    /\ db[Name(last)] = 1

\* C8: a cached handle stays in the cache unchanged; an access to a cached
\* name returns that handle and creates nothing; an access that adds a name
\* to the cache created the handle it returns; no name has its handle
\* created twice.
C8_CacheMemoizes ==
    [][/\ \A n \in DOMAIN engines :
            n \in DOMAIN engines' /\ engines'[n] = engines[n]
       /\ \A n \in DbNames : creations'[n] <= 1
       /\ ("cache_read" \in Range(last'.effects) /\ Name(last') \in DOMAIN engines)
          => /\ ~last'.created
             /\ "create_engine" \notin Range(last'.effects)
             /\ last'.engine = engines[Name(last')]
       /\ \A n \in (DOMAIN engines') \ (DOMAIN engines) :
             /\ last'.created
             /\ n = Name(last')
             /\ engines'[n] = last'.engine
             /\ creations'[n] = 1]_vars

\* a later access found the handle in the cache
C8_Witness ==
    /\ "cache_read" \in Range(last.effects)
    /\ ~last.created
    /\ last.engine # 0
    /\ Name(last) \in DOMAIN engines
    /\ engines[Name(last)] = last.engine
    /\ Cardinality(DOMAIN engines) = 2

\* C9: get_schema with a configured connection and no table filter returns
\* the report, not an error (unless the engine or the connection fails): a
\* header for every visible table and a row for every column.
C9_SchemaReport ==
    (last.tool = "get_schema" /\ ArgsPresent(last) /\ Configured(Name(last))
        /\ last.arguments.table_names = PyNone)
    => \/ last.exc \in {"RuntimeError", "OperationalError"}
       \/ /\ last.status = "text"
          /\ ~IsError(last.text)
          /\ \A i \in 1..Len(VisibleTables) :
                /\ \E j \in 1..Len(last.value) :
                      last.value[j] = <<"## Table: ", VisibleTables[i].name>>
                /\ \A k \in 1..Len(VisibleTables[i].columns) :
                      \E j \in 1..Len(last.value) :
                          /\ Len(last.value[j]) = 5
                          /\ last.value[j][2] = VisibleTables[i].columns[k].name
                          /\ last.value[j][3] = VisibleTables[i].columns[k].type

\* C10 as stated: every call that is rejected or fails leaves the engine
\* cache unchanged.
C10_FailedCallsLeaveCache ==
    [][(last'.status = "raised" \/ last'.exc # Ok) => engines' = engines]_vars

\* C10 amended: a call rejected before a handle exists (missing argument,
\* denylisted read, unknown name, read-only write, failed handle creation,
\* a call the schema reporter does not accept) leaves the cache unchanged;
\* the cache holds configured names only; a read-only connection used only
\* through write_sql has no handle.
C10_RejectedCallsLeaveCache ==
    [][/\ (\/ last'.status = "raised"
           \/ last'.exc \in {"ValueError", "PermissionError", "RuntimeError",
                             "TypeError"})
          => engines' = engines
       /\ \A n \in DOMAIN engines' : Configured(n)
       /\ \A n \in DbNames :
            (ReadOnly(n) /\ n \notin otherUse') => n \notin DOMAIN engines']_vars

\* handle creation failed on a first access and the name is not cached
C10_Witness ==
    /\ last.exc = "RuntimeError"
    /\ "create_engine" \in Range(last.effects)
    /\ Name(last) \notin DOMAIN engines

====
